---- MODULE Spec2Model ----
(***************************************************************************)
(* mkinit-rs: generation of __init__.py index files for a tree of Python   *)
(* source modules (src/src/codegen.rs, src/src/main.rs).                   *)
(*                                                                         *)
(* Strings are sequences of byte values, so that starts_with,              *)
(* strip_suffix and the byte-wise ordering of String::cmp are computed     *)
(* rather than assumed.  A text is a sequence of lines; a line is          *)
(* <<literal prefix, name, literal suffix>>, the three pieces of the       *)
(* format! call that produced it.                                          *)
(*                                                                         *)
(* The program starts where clap has parsed Args and the python version    *)
(* string was accepted; the parser service is a file's `parses` flag and   *)
(* the syntax tree it returns.                                             *)
(***************************************************************************)
EXTENDS Integers, Sequences, FiniteSets, TLC

VARIABLES
    \* ---- configuration (main.rs Args) ----
    root,           \* node id of args.dir
    respect_all,    \* --respect-all
    sort_imports,   \* --sort-imports
    \* ---- filesystem ----
    present,        \* the entries of the universe that exist in this tree
    index,          \* index[d]: the __init__.py of directory d
    \* ---- the recursion of make_init ----
    pc,             \* "start", "walk", "returned", "done"; "apart" when the
                    \* Renderer or the Exposer is exercised on its own
    stack,          \* frames of the make_init calls on directories
    ret,            \* what the outermost make_init returned
    \* ---- the program's observable behaviour ----
    written,        \* directories whose index was written, in write order
    stderr,         \* lines printed with eprintln!
    stdout,         \* lines printed with println!
    exited,         \* the exit status of the process, -1 while running
    \* ---- history ----
    results,        \* results[n]: the statement list make_init returned for n
    walked,         \* walked[d]: the order the walker yielded d's entries
    faults,         \* the kinds of failure met so far
    \* ---- the Renderer on its own ----
    statements,     \* the statement list handed to process_init_file
    renders,        \* the texts successive invocations wrote
    \* ---- the Exposer on its own ----
    body,           \* the top-level statements of a parsed module
    exposed         \* <<names>> once get_exposed_names has run, <<>> before

vars == <<root, respect_all, sort_imports, present, index, pc, stack, ret,
          written, stderr, stdout, exited, results, walked, faults,
          statements, renders, body, exposed>>

-----------------------------------------------------------------------------
(* Bounds *)

\* most entries a tree holds below the package directory
MaxEntries == 5
\* longest statement list handed to the Renderer on its own
MaxStatements == 3
\* longest module body handed to the Exposer on its own
MaxBody == 3

-----------------------------------------------------------------------------
(* Strings *)

s_all       == <<95, 95, 97, 108, 108, 95, 95>>                       \* __all__
s_init_py   == <<95, 95, 105, 110, 105, 116, 95, 95, 46, 112, 121>>   \* __init__.py
s_dot_py    == <<46, 112, 121>>                                       \* .py
s_underscore == <<95>>                                                \* _

EmptyStr == <<>>

Range(seq) == {seq[i] : i \in 1..Len(seq)}

\* str::starts_with
StartsWith(s, p) ==
    /\ Len(s) >= Len(p)
    /\ SubSeq(s, 1, Len(p)) = p

\* str::ends_with
EndsWith(s, p) ==
    /\ Len(s) >= Len(p)
    /\ SubSeq(s, Len(s) - Len(p) + 1, Len(s)) = p

\* name.strip_suffix(".py").unwrap_or(name)
StripPy(name) ==
    IF EndsWith(name, s_dot_py)
    THEN SubSeq(name, 1, Len(name) - Len(s_dot_py))
    ELSE name

\* Path::extension() == Some("py"): the file name ends in ".py" and has
\* something before the dot (a file named ".py" has no extension)
HasPyExtension(name) ==
    /\ EndsWith(name, s_dot_py)
    /\ Len(name) > Len(s_dot_py)

\* Ord for str: byte-wise lexicographic
RECURSIVE StrLess(_, _)
StrLess(s, t) ==
    IF t = <<>> THEN FALSE
    ELSE IF s = <<>> THEN TRUE
    ELSE IF s[1] # t[1] THEN s[1] < t[1]
    ELSE StrLess(Tail(s), Tail(t))

\* Ord for (&String, &String): by the first component, then the second
PairLess(p, q) ==
    \/ StrLess(p[1], q[1])
    \/ p[1] = q[1] /\ StrLess(p[2], q[2])

\* the place of x in the sorted sequence seq, after its equals (stable)
RECURSIVE InsertStr(_, _)
InsertStr(seq, x) ==
    IF seq = <<>> THEN <<x>>
    ELSE IF StrLess(x, seq[1]) THEN <<x>> \o seq
    ELSE <<seq[1]>> \o InsertStr(Tail(seq), x)

RECURSIVE InsertPair(_, _)
InsertPair(seq, x) ==
    IF seq = <<>> THEN <<x>>
    ELSE IF PairLess(x, seq[1]) THEN <<x>> \o seq
    ELSE <<seq[1]>> \o InsertPair(Tail(seq), x)

\* Vec<&String>::sort
RECURSIVE SortStrs(_)
SortStrs(seq) ==
    IF seq = <<>> THEN <<>>
    ELSE InsertStr(SortStrs(SubSeq(seq, 1, Len(seq) - 1)), seq[Len(seq)])

\* Vec<(&String, &String)>::sort
RECURSIVE SortPairs(_)
SortPairs(seq) ==
    IF seq = <<>> THEN <<>>
    ELSE InsertPair(SortPairs(SubSeq(seq, 1, Len(seq) - 1)), seq[Len(seq)])

\* the subsequence of seq whose elements are in keep
RECURSIVE SelectSeqOf(_, _)
SelectSeqOf(seq, keep) ==
    IF seq = <<>> THEN <<>>
    ELSE (IF seq[1] \in keep THEN <<seq[1]>> ELSE <<>>)
         \o SelectSeqOf(Tail(seq), keep)

\* all orders of the elements of the finite set S
Orders(S) ==
    {f \in [1..Cardinality(S) -> S] : \A x \in S : \E i \in DOMAIN f : f[i] = x}

\* all sequences over S of length at most n
SeqsUpTo(S, n) == UNION {[1..k -> S] : k \in 0..n}

-----------------------------------------------------------------------------
(* enum Imports *)

Import(name)             == [tag |-> "Import", a |-> name, b |-> EmptyStr]
FromImport(module, attr) == [tag |-> "FromImport", a |-> module, b |-> attr]
Attribute(name)          == [tag |-> "Attribute", a |-> name, b |-> EmptyStr]

-----------------------------------------------------------------------------
(* The syntax tree the parser service returns (ruff_python_ast)            *)
(* Expr: Name(id), Str(value, kept in id), Tuple(elts), List(elts), Other  *)
(* Stmt: FunctionDef(name), ClassDef(name), Assign(targets, value), Other  *)

NameExpr(id)    == [kind |-> "Name", id |-> id, elts |-> <<>>]
StrExpr(value)  == [kind |-> "Str", id |-> value, elts |-> <<>>]
OtherExpr       == [kind |-> "Other", id |-> EmptyStr, elts |-> <<>>]
TupleExpr(elts) == [kind |-> "Tuple", id |-> EmptyStr, elts |-> elts]
ListExpr(elts)  == [kind |-> "List", id |-> EmptyStr, elts |-> elts]

FunctionDef(name) ==
    [kind |-> "FunctionDef", name |-> name, targets |-> <<>>, value |-> OtherExpr]
ClassDef(name) ==
    [kind |-> "ClassDef", name |-> name, targets |-> <<>>, value |-> OtherExpr]
Assign(targets, value) ==
    [kind |-> "Assign", name |-> EmptyStr, targets |-> targets, value |-> value]
OtherStmt ==
    [kind |-> "Other", name |-> EmptyStr, targets |-> <<>>, value |-> OtherExpr]

-----------------------------------------------------------------------------
(* get_exposed_names *)

NoAll == [some |-> FALSE, names |-> {}]
SomeAll(names) == [some |-> TRUE, names |-> names]

\* names.elts.iter().filter_map(|n| n.as_string_literal_expr()).map(value)
StringLiterals(elts) ==
    {elts[i].id : i \in {j \in 1..Len(elts) : elts[j].kind = "Str"}}

\* the scan for an existing __all__: the first assignment whose first target
\* is the name __all__ ends the scan, with a set when its value is a list
RECURSIVE ScanAll(_)
ScanAll(stmts) ==
    IF stmts = <<>> THEN NoAll
    ELSE LET stmt == stmts[1] IN
         IF /\ stmt.kind = "Assign"
            /\ stmt.targets[1].kind = "Name"
            /\ stmt.targets[1].id = s_all
         THEN IF stmt.value.kind = "List"
              THEN SomeAll(StringLiterals(stmt.value.elts))
              ELSE NoAll
         ELSE ScanAll(Tail(stmts))

\* let mut all = None; if respect_all { ... }
CollectAll(stmts, respect) ==
    IF respect THEN ScanAll(stmts) ELSE NoAll

\* the closure normally_exposed
normally_exposed(name) == ~StartsWith(name, s_underscore)

\* the closure push_name, as the names it adds to the result
push_name(all, name) ==
    IF all.some
    THEN IF name \in all.names THEN <<name>> ELSE <<>>
    ELSE IF normally_exposed(name) THEN <<name>> ELSE <<>>

\* the bare names among the elements of a tuple target, through push_name
RECURSIVE PushTuple(_, _)
PushTuple(all, elts) ==
    IF elts = <<>> THEN <<>>
    ELSE (IF elts[1].kind = "Name" THEN push_name(all, elts[1].id) ELSE <<>>)
         \o PushTuple(all, Tail(elts))

\* one arm of the match over a top-level statement
PushStmt(all, stmt) ==
    CASE stmt.kind = "FunctionDef" -> push_name(all, stmt.name)
      [] stmt.kind = "ClassDef"    -> push_name(all, stmt.name)
      [] stmt.kind = "Assign" ->
            IF Len(stmt.targets) = 0 THEN <<>>
            ELSE LET first == stmt.targets[1] IN
                 CASE first.kind = "Name"  -> push_name(all, first.id)
                   [] first.kind = "Tuple" -> PushTuple(all, first.elts)
                   [] OTHER -> <<>>
      [] OTHER -> <<>>

RECURSIVE PushBody(_, _)
PushBody(all, stmts) ==
    IF stmts = <<>> THEN <<>>
    ELSE PushStmt(all, stmts[1]) \o PushBody(all, Tail(stmts))

get_exposed_names(stmts, respect) ==
    PushBody(CollectAll(stmts, respect), stmts)

-----------------------------------------------------------------------------
(* process_init_file: the text it builds *)

Piece(prefix, name, suffix) == <<prefix, name, suffix>>

ImportLine(module)  == Piece("from . import ", module, "\n")
BlankLine           == Piece("\n", EmptyStr, "")
GroupOpen(module)   == Piece("from .", module, " import (\n")
GroupAttr(attr)     == Piece("    ", attr, ",\n")
GroupClose          == Piece(")\n", EmptyStr, "")
AllOpen             == Piece("\n__all__ = [\n", EmptyStr, "")
AllEntry(name)      == Piece("    \"", name, "\",\n")
AllClose            == Piece("]\n", EmptyStr, "")

\* statements.iter().filter_map(Import(attr) => Some(attr))
RECURSIVE ImportsOf(_)
ImportsOf(stmts) ==
    IF stmts = <<>> THEN <<>>
    ELSE (IF stmts[1].tag = "Import" THEN <<stmts[1].a>> ELSE <<>>)
         \o ImportsOf(Tail(stmts))

\* statements.iter().filter_map(FromImport(module, attr) => Some((module, attr)))
RECURSIVE FromImportsOf(_)
FromImportsOf(stmts) ==
    IF stmts = <<>> THEN <<>>
    ELSE (IF stmts[1].tag = "FromImport" THEN <<<<stmts[1].a, stmts[1].b>>>> ELSE <<>>)
         \o FromImportsOf(Tail(stmts))

\* if sort_imports { imports.sort(); }
SortedImports(stmts, sort) ==
    IF sort THEN SortStrs(ImportsOf(stmts)) ELSE ImportsOf(stmts)

\* a plausible slip: only imports is sorted, from_imports is left as it came
SortedFromImportsForgotten(stmts, sort) == FromImportsOf(stmts)

\* if sort_imports { from_imports.sort(); }
SortedFromImports(stmts, sort) ==
    IF sort THEN SortPairs(FromImportsOf(stmts)) ELSE FromImportsOf(stmts)

\* from_imports_map[module]: the attributes pushed for module, in push order
RECURSIVE MapGet(_, _)
MapGet(from_imports, module) ==
    IF from_imports = <<>> THEN <<>>
    ELSE (IF from_imports[1][1] = module THEN <<from_imports[1][2]>> ELSE <<>>)
         \o MapGet(Tail(from_imports), module)

\* from_imports_map.keys(), as a set
MapKeys(from_imports) == {from_imports[i][1] : i \in 1..Len(from_imports)}

\* the orders HashMap::keys() can yield: the hasher is seeded per map, so
\* any order of the keys
KeyOrders(stmts) == Orders(MapKeys(FromImportsOf(stmts)))

\* let mut map_keys = Vec::from_iter(keys()); if sort_imports { map_keys.sort(); }
map_keys(keys, sort) == IF sort THEN SortStrs(keys) ELSE keys

RECURSIVE ImportLines(_)
ImportLines(imports) ==
    IF imports = <<>> THEN <<>>
    ELSE <<ImportLine(imports[1])>> \o ImportLines(Tail(imports))

RECURSIVE AttrLines(_)
AttrLines(attrs) ==
    IF attrs = <<>> THEN <<>>
    ELSE <<GroupAttr(attrs[1])>> \o AttrLines(Tail(attrs))

RECURSIVE GroupLines(_, _)
GroupLines(keys, from_imports) ==
    IF keys = <<>> THEN <<>>
    ELSE <<GroupOpen(keys[1])>> \o AttrLines(MapGet(from_imports, keys[1]))
         \o <<GroupClose>> \o GroupLines(Tail(keys), from_imports)

RECURSIVE GroupAttrsOf(_, _)
GroupAttrsOf(keys, from_imports) ==
    IF keys = <<>> THEN <<>>
    ELSE MapGet(from_imports, keys[1]) \o GroupAttrsOf(Tail(keys), from_imports)

\* a plausible slip: __all__ collected from from_imports before the grouping
AllNamesUngrouped(imports, keys, from_imports) ==
    imports \o [i \in 1..Len(from_imports) |-> from_imports[i][2]]

\* the vector all: pushed to beside every import line and every group attribute
AllNames(imports, keys, from_imports) ==
    imports \o GroupAttrsOf(keys, from_imports)

RECURSIVE AllLines(_)
AllLines(names) ==
    IF names = <<>> THEN <<>>
    ELSE <<AllEntry(names[1])>> \o AllLines(Tail(names))

\* new_contents, for the order keyOrder of the map's keys
new_contents(stmts, sort, keyOrder) ==
    LET imports      == SortedImports(stmts, sort)
        from_imports == SortedFromImports(stmts, sort)
        keys         == map_keys(keyOrder, sort)
    IN  ImportLines(imports)
        \o <<BlankLine>>
        \o GroupLines(keys, from_imports)
        \o <<AllOpen>>
        \o AllLines(AllNames(imports, keys, from_imports))
        \o <<AllClose>>

-----------------------------------------------------------------------------
(* Names used in the trees, the statement lists and the module bodies *)

n_f     == <<102>>                             \* f
n_g     == <<103>>                             \* g
n_V     == <<86>>                              \* V
n_X     == <<88>>                              \* X
n__h    == <<95, 104>>                         \* _h
n__x    == <<95, 120>>                         \* _x
n__y    == <<95, 121>>                         \* _y
n_a     == <<97>>                              \* a
n_b     == <<98>>                              \* b
n_x     == <<120>>                             \* x
n_y     == <<121>>                             \* y
n_pkg   == <<112, 107, 103>>                   \* pkg
n_a_py  == <<97, 46, 112, 121>>                \* a.py
n__m_py == <<95, 109, 46, 112, 121>>           \* _m.py
n_sub   == <<115, 117, 98>>                    \* sub
n_empty == <<101, 109, 112, 116, 121>>         \* empty
n_bad_py == <<98, 97, 100, 46, 112, 121>>      \* bad.py
n_lost  == <<108, 111, 115, 116>>              \* lost
n_b_py  == <<98, 46, 112, 121>>                \* b.py
n_p_py  == <<112, 46, 112, 121>>               \* p.py
n_q     == <<113>>                             \* q
n_c_py  == <<99, 46, 112, 121>>                \* c.py
n_r_txt == <<114, 46, 116, 120, 116>>          \* r.txt
n_fifo  == <<102, 105, 102, 111>>              \* fifo

-----------------------------------------------------------------------------
(* The trees: every tree is a part of one universe of entries.             *)
(* kind: "dir", "file" (a regular file), "other" (exists, neither), "err"  *)
(* (the walker yields Err for the entry, and the path cannot be stat'ed).  *)
(* parses: whether parse_module can read and parse the file.               *)

\* def f(): pass
BodyF == <<FunctionDef(n_f)>>
\* __all__ = ["_h"]; _h = 0; V = 1
BodyAll == <<Assign(<<NameExpr(s_all)>>, ListExpr(<<StrExpr(n__h)>>)),
            Assign(<<NameExpr(n__h)>>, OtherExpr),
            Assign(<<NameExpr(n_V)>>, OtherExpr)>>
\* def g(): pass; X, _y = 1, 2
BodyG == <<FunctionDef(n_g),
          Assign(<<TupleExpr(<<NameExpr(n_X), NameExpr(n__y)>>)>>, OtherExpr)>>
\* _x = 1
BodyPrivate == <<Assign(<<NameExpr(n__x)>>, OtherExpr)>>

Entry(name, parent, kind, parses, stmts) ==
    [name |-> name, parent |-> parent, kind |-> kind, parses |-> parses,
     body |-> stmts]

Universe == <<
    Entry(n_pkg,    0,  "dir",   FALSE, <<>>),          \*  1  pkg/
    Entry(n_a_py,   1,  "file",  TRUE,  BodyAll),       \*  2  pkg/a.py
    Entry(n__m_py,  1,  "file",  TRUE,  BodyF),         \*  3  pkg/_m.py
    Entry(n_sub,    1,  "dir",   FALSE, <<>>),          \*  4  pkg/sub/
    Entry(n_empty,  1,  "dir",   FALSE, <<>>),          \*  5  pkg/empty/
    Entry(n_bad_py, 1,  "file",  FALSE, <<>>),          \*  6  pkg/bad.py
    Entry(n_b_py,   4,  "file",  TRUE,  BodyG),         \*  7  pkg/sub/b.py
    Entry(n_p_py,   4,  "file",  TRUE,  BodyPrivate),   \*  8  pkg/sub/p.py
    Entry(n_q,      4,  "dir",   FALSE, <<>>),          \*  9  pkg/sub/q/
    Entry(n_b_py,   9,  "file",  TRUE,  BodyF),         \* 10  pkg/sub/q/b.py
    Entry(n_r_txt,  9,  "file",  FALSE, <<>>),          \* 11  pkg/sub/q/r.txt
    Entry(n_fifo,   5,  "other", FALSE, <<>>),          \* 12  pkg/empty/fifo
    Entry(n_lost,   5,  "err",   FALSE, <<>>)           \* 13  pkg/empty/lost
>>

Nodes == DOMAIN Universe
Pkg == CHOOSE n \in Nodes : Universe[n].parent \notin Nodes
Dirs == {n \in Nodes : Universe[n].kind = "dir"}
ChildrenOf(d) == {n \in Nodes : Universe[n].parent = d}

\* a tree: the package directory, every entry's parent with it, and at most
\* MaxEntries entries below the package directory
Trees ==
    {t \in SUBSET Nodes :
        /\ Pkg \in t
        /\ \A n \in t \ {Pkg} : Universe[n].parent \in t
        /\ Cardinality(t \ {Pkg}) <= MaxEntries}

\* Path::exists, Path::is_dir, Path::is_file
Exists(tree, n) == n \in tree /\ Universe[n].kind # "err"
IsDir(tree, n)  == n \in tree /\ Universe[n].kind = "dir"
IsFile(tree, n) == n \in tree /\ Universe[n].kind = "file"

\* an __init__.py a user wrote by hand
HandWritten == <<Piece("# written by hand\n", EmptyStr, "")>>
NoFile      == [exists |-> FALSE, text |-> <<>>]
File(text)  == [exists |-> TRUE, text |-> text]

\* the indices before the program runs: pkg/sub/q has one written by hand
InitialIndex(tree) ==
    [d \in Dirs |-> IF d \in tree /\ Universe[d].name = n_q
                    THEN File(HandWritten) ELSE NoFile]

-----------------------------------------------------------------------------
(* make_init: the directory walk *)

\* a walkdir::DirEntry: its file name and the entry it stands for; init
\* marks the __init__.py of directory node
DirEntry(n)  == [name |-> Universe[n].name, node |-> n, init |-> FALSE]
InitEntry(d) == [name |-> s_init_py, node |-> d, init |-> TRUE]

\* what WalkDir::new(path).min_depth(1).max_depth(1) finds in directory d
DirEntries(tree, ix, d) ==
    {DirEntry(n) : n \in ChildrenOf(d) \cap tree}
    \cup (IF ix[d].exists THEN {InitEntry(d)} ELSE {})

EntryIsDir(tree, e)  == ~e.init /\ IsDir(tree, e.node)
EntryIsFile(tree, e) == e.init \/ IsFile(tree, e.node)
\* the walker yields Err for the entry
EntryIsErr(e) == ~e.init /\ Universe[e.node].kind = "err"

\* .filter_map(|e| e.ok()).filter(|e| e.path().is_dir() || e.path().is_file())
Yielded(tree, entries) ==
    {e \in entries : ~EntryIsErr(e) /\ (EntryIsDir(tree, e) \/ EntryIsFile(tree, e))}

\* the sequences the filtered iterator can yield for d: the walker's order is
\* the file system's
Walks(tree, ix, d) ==
    LET entries == DirEntries(tree, ix, d)
    IN  {SelectSeqOf(o, Yielded(tree, entries)) : o \in Orders(entries)}

\* the failures the walker met and dropped in d
WalkFaults(tree, ix, d) ==
    IF \E e \in DirEntries(tree, ix, d) : EntryIsErr(e) THEN {"enumerate"} ELSE {}

\* the two `continue`s at the head of the loop body
Skipped(tree, e) ==
    \/ EntryIsFile(tree, e) /\ ~HasPyExtension(e.name)
    \/ e.name = s_init_py

\* submod_name
submod_name(e) == StripPy(e.name)

\* make_init on a source file: Ok(the exposed names as Attribute statements)
RECURSIVE Attributes(_)
Attributes(names) ==
    IF names = <<>> THEN <<>>
    ELSE <<Attribute(names[1])>> \o Attributes(Tail(names))

FileResult(n, respect) == Attributes(get_exposed_names(Universe[n].body, respect))

\* a plausible slip: the inner module name is carried up
FlattenKeepsModule(stem, statement) ==
    IF statement.tag = "FromImport"
    THEN FromImport(statement.a, statement.b)
    ELSE FromImport(stem, statement.a)

\* the match that re-exports one statement of the child under the child's name
FlattenStmt(stem, statement) ==
    CASE statement.tag = "Import"     -> FromImport(stem, statement.a)
      [] statement.tag = "FromImport" -> FromImport(stem, statement.b)
      [] statement.tag = "Attribute"  -> FromImport(stem, statement.a)

\* a plausible slip: every directory is kept, exposing nothing or not
OmittedNever(isDir, submod_init) == FALSE

\* "Don't expose directories with no modules."
Omitted(isDir, submod_init) == isDir /\ submod_init = <<>>

\* what one child adds to result, given what the recursion returned for it
Aggregate(result, isDir, stem, submod_init) ==
    IF Omitted(isDir, submod_init) THEN result
    ELSE result \o <<Import(stem)>>
         \o [i \in 1..Len(submod_init) |-> FlattenStmt(stem, submod_init[i])]

\* "Don't process the __init__.py file if nothing is to be exposed."
NothingToExpose(result) == result = <<>>

Frame(d, kids) == [node |-> d, kids |-> kids, idx |-> 1, result |-> <<>>]

Ok(value) == [ok |-> TRUE, value |-> value, err |-> ""]
Err(e)    == [ok |-> FALSE, value |-> <<>>, err |-> e]
Pending   == [ok |-> FALSE, value |-> <<>>, err |-> "pending"]

NoResult    == [done |-> FALSE, value |-> <<>>]
Result(v)   == [done |-> TRUE, value |-> v]

Top == stack[Len(stack)]
Caller == stack[Len(stack) - 1]
Current == Top.kids[Top.idx]
\* the for loop of the innermost make_init has an entry to take
InLoop == pc = "walk" /\ stack # <<>> /\ Top.idx <= Len(Top.kids)

\* a plausible slip: the index is processed inside the loop, once an entry
\* has been taken
LoopDoneEarly == pc = "walk" /\ stack # <<>> /\ Top.idx > 1

\* the for loop is exhausted: control reaches the statements after it
LoopDone == pc = "walk" /\ stack # <<>> /\ Top.idx > Len(Top.kids)

\* the `?` and the `Err(e) => Err(e)`: every make_init on the stack returns e
Propagate(e, fault) ==
    /\ stack' = <<>>
    /\ ret' = Err(e)
    /\ pc' = "returned"
    /\ faults' = faults \cup {fault}

-----------------------------------------------------------------------------
(* The program: main, process_project and the recursion of make_init *)

Idle ==
    /\ stack = <<>>
    /\ ret = Pending
    /\ written = <<>>
    /\ stderr = <<>>
    /\ stdout = <<>>
    /\ exited = -1
    /\ results = [n \in Nodes |-> NoResult]
    /\ walked = [d \in Dirs |-> <<>>]
    /\ faults = {}

Apart ==
    /\ statements = <<>>
    /\ renders = <<>>
    /\ body = <<>>
    /\ exposed = <<>>

Init ==
    /\ present \in Trees
    /\ root \in Nodes
    /\ respect_all \in BOOLEAN
    /\ sort_imports \in BOOLEAN
    /\ index = InitialIndex(present)
    /\ pc = "start"
    /\ Idle
    /\ Apart

\* main calls process_project, which calls make_init on args.dir: the checks
\* at the head of make_init, and for a source file its whole body
Start ==
    /\ pc = "start"
    /\ IF ~Exists(present, root)
       THEN /\ ret' = Err("does not exist")
            /\ pc' = "returned"
            /\ UNCHANGED <<stack, walked, faults, results>>
       ELSE IF IsDir(present, root)
       THEN /\ \E kids \in Walks(present, index, root) :
                 /\ stack' = <<Frame(root, kids)>>
                 /\ walked' = [walked EXCEPT ![root] = kids]
            /\ faults' = faults \cup WalkFaults(present, index, root)
            /\ pc' = "walk"
            /\ UNCHANGED <<ret, results>>
       ELSE IF IsFile(present, root) /\ HasPyExtension(Universe[root].name)
       THEN /\ IF Universe[root].parses
               THEN /\ ret' = Ok(FileResult(root, respect_all))
                    /\ results' = [results EXCEPT
                                     ![root] = Result(FileResult(root, respect_all))]
                    /\ UNCHANGED faults
               ELSE /\ ret' = Err("parse error")
                    /\ faults' = faults \cup {"parse"}
                    /\ UNCHANGED results
            /\ pc' = "returned"
            /\ UNCHANGED <<stack, walked>>
       ELSE /\ ret' = Err("not a directory or Python source file")
            /\ pc' = "returned"
            /\ UNCHANGED <<stack, walked, faults, results>>
    /\ UNCHANGED <<root, respect_all, sort_imports, present, index, written,
                   stderr, stdout, exited>>
    /\ UNCHANGED <<statements, renders, body, exposed>>

\* an entry that is not a Python source file or a directory, or is __init__.py
SkipEntry ==
    /\ InLoop
    /\ Skipped(present, Current)
    /\ stack' = [stack EXCEPT ![Len(stack)].idx = @ + 1]
    /\ UNCHANGED <<root, respect_all, sort_imports, present, index, pc, ret,
                   written, stderr, stdout, exited, results, walked, faults>>
    /\ UNCHANGED <<statements, renders, body, exposed>>

\* a source file: the recursive make_init parses it and returns its exposed
\* names, which the loop body adds to result
VisitFile ==
    /\ InLoop
    /\ ~Skipped(present, Current)
    /\ EntryIsFile(present, Current)
    /\ Universe[Current.node].parses
    /\ LET submod_init == FileResult(Current.node, respect_all)
       IN  /\ stack' = [stack EXCEPT
                 ![Len(stack)].result =
                     Aggregate(@, FALSE, submod_name(Current), submod_init),
                 ![Len(stack)].idx = @ + 1]
           /\ results' = [results EXCEPT ![Current.node] = Result(submod_init)]
    /\ UNCHANGED <<root, respect_all, sort_imports, present, index, pc, ret,
                   written, stderr, stdout, exited, walked, faults>>
    /\ UNCHANGED <<statements, renders, body, exposed>>

\* a source file that cannot be read or parsed: parse_module returns Err
VisitFileFails ==
    /\ InLoop
    /\ ~Skipped(present, Current)
    /\ EntryIsFile(present, Current)
    /\ ~Universe[Current.node].parses
    /\ Propagate("parse error", "parse")
    /\ UNCHANGED <<root, respect_all, sort_imports, present, index,
                   written, stderr, stdout, exited, results, walked>>
    /\ UNCHANGED <<statements, renders, body, exposed>>

\* a directory: the recursive make_init starts its own walk
Descend ==
    /\ InLoop
    /\ ~Skipped(present, Current)
    /\ EntryIsDir(present, Current)
    /\ LET d == Current.node
       IN  /\ \E kids \in Walks(present, index, d) :
                /\ stack' = Append(stack, Frame(d, kids))
                /\ walked' = [walked EXCEPT ![d] = kids]
           /\ faults' = faults \cup WalkFaults(present, index, d)
    /\ UNCHANGED <<root, respect_all, sort_imports, present, index, pc, ret,
                   written, stderr, stdout, exited, results>>
    /\ UNCHANGED <<statements, renders, body, exposed>>

\* the walk of a directory is over: process_init_file writes its index unless
\* nothing is to be exposed, make_init returns, and the caller's loop body
\* adds the result to its own
ReturnDir ==
    /\ LoopDone
    /\ LET d == Top.node
           result == Top.result
       IN  /\ IF NothingToExpose(result)
              THEN UNCHANGED <<index, written>>
              ELSE \E keyOrder \in KeyOrders(result) :
                     /\ index' = [index EXCEPT ![d] =
                           File(new_contents(result, sort_imports, keyOrder))]
                     /\ written' = Append(written, d)
           /\ results' = [results EXCEPT ![d] = Result(result)]
           /\ IF Len(stack) = 1
              THEN /\ stack' = <<>>
                   /\ ret' = Ok(result)
                   /\ pc' = "returned"
              ELSE /\ stack' = [SubSeq(stack, 1, Len(stack) - 1) EXCEPT
                         ![Len(stack) - 1].result =
                             Aggregate(@, TRUE, submod_name(Caller.kids[Caller.idx]),
                                       result),
                         ![Len(stack) - 1].idx = @ + 1]
                   /\ UNCHANGED <<ret, pc>>
    /\ UNCHANGED <<root, respect_all, sort_imports, present,
                   stderr, stdout, exited, walked, faults>>
    /\ UNCHANGED <<statements, renders, body, exposed>>

\* fs::write fails
WriteFails ==
    /\ LoopDone
    /\ ~NothingToExpose(Top.result)
    /\ Propagate("write error", "write")
    /\ UNCHANGED <<root, respect_all, sort_imports, present, index,
                   written, stderr, stdout, exited, results, walked>>
    /\ UNCHANGED <<statements, renders, body, exposed>>

\* process_project prints the result or the error, then main prints the error
\* it was handed, and returns
Finish ==
    /\ pc = "returned"
    /\ IF ret.ok
       THEN /\ stdout' = Append(stdout, ret.value)
            /\ UNCHANGED stderr
       ELSE /\ stderr' = stderr \o <<ret.err>> \o <<ret.err>>
            /\ UNCHANGED stdout
    /\ exited' = 0
    /\ pc' = "done"
    /\ UNCHANGED <<root, respect_all, sort_imports, present, index, stack, ret,
                   written, results, walked, faults>>
    /\ UNCHANGED <<statements, renders, body, exposed>>

Next ==
    \/ Start
    \/ SkipEntry
    \/ VisitFile
    \/ VisitFileFails
    \/ Descend
    \/ ReturnDir
    \/ WriteFails
    \/ Finish

Spec == Init /\ [][Next]_vars

-----------------------------------------------------------------------------
(* The Renderer on its own: process_init_file invoked on one statement     *)
(* list, twice                                                             *)

StatementPool ==
    {Import(n_a), Import(n_b),
     FromImport(n_a, n_x), FromImport(n_a, n_y),
     FromImport(n_b, n_x), FromImport(n_b, n_y)}

NoProgram ==
    /\ root = Pkg
    /\ present = {Pkg}
    /\ index = InitialIndex(present)
    /\ pc = "apart"
    /\ Idle

InitRender ==
    /\ statements \in SeqsUpTo(StatementPool, MaxStatements)
    /\ sort_imports \in BOOLEAN
    /\ renders = <<>>
    /\ respect_all = TRUE
    /\ body = <<>>
    /\ exposed = <<>>
    /\ NoProgram

\* process_init_file(path, statements, .., sort_imports, ..) whose write
\* succeeds; renders records the text written
Render ==
    /\ pc = "apart"
    /\ Len(renders) < 2
    /\ \E keyOrder \in KeyOrders(statements) :
         renders' = Append(renders, new_contents(statements, sort_imports, keyOrder))
    /\ UNCHANGED <<root, respect_all, sort_imports, present, index, pc, stack,
                   ret, written, stderr, stdout, exited, results, walked,
                   faults, statements, body, exposed>>

NextRender == Render

SpecRender == InitRender /\ [][NextRender]_vars

-----------------------------------------------------------------------------
(* The Exposer on its own: get_exposed_names on one parsed module *)

StmtPool ==
    {FunctionDef(n_f),                                           \* def f(): pass
     FunctionDef(n__h),                                          \* def _h(): pass
     ClassDef(n_V),                                              \* class V: pass
     Assign(<<NameExpr(s_all)>>,
            ListExpr(<<StrExpr(n__h), StrExpr(n_b)>>)),          \* __all__ = ["_h", "b"]
     Assign(<<NameExpr(s_all)>>,
            ListExpr(<<StrExpr(n_f), OtherExpr>>)),              \* __all__ = ["f", g]
     Assign(<<NameExpr(s_all)>>, OtherExpr),                     \* __all__ = names()
     Assign(<<NameExpr(n_a), NameExpr(n_b)>>, OtherExpr),        \* a = b = 1
     Assign(<<TupleExpr(<<NameExpr(n_f), NameExpr(n__y), OtherExpr>>)>>,
            OtherExpr),                                          \* f, _y, o.p = 1, 2, 3
     Assign(<<OtherExpr>>, OtherExpr),                           \* o.p = 1
     OtherStmt}                                                  \* import os

InitExposer ==
    /\ body \in SeqsUpTo(StmtPool, MaxBody)
    /\ respect_all \in BOOLEAN
    /\ exposed = <<>>
    /\ sort_imports = TRUE
    /\ statements = <<>>
    /\ renders = <<>>
    /\ NoProgram

\* get_exposed_names(&parsed, respect_all)
Expose ==
    /\ pc = "apart"
    /\ exposed = <<>>
    /\ exposed' = <<get_exposed_names(body, respect_all)>>
    /\ UNCHANGED <<root, respect_all, sort_imports, present, index, pc, stack,
                   ret, written, stderr, stdout, exited, results, walked,
                   faults, statements, renders, body>>

NextExposer == Expose

SpecExposer == InitExposer /\ [][NextExposer]_vars

-----------------------------------------------------------------------------
(* Reading a written index back *)

\* the names of the pieces of text that start with prefix
RECURSIVE NamesAfter(_, _)
NamesAfter(text, prefix) ==
    IF text = <<>> THEN <<>>
    ELSE (IF text[1][1] = prefix THEN <<text[1][2]>> ELSE <<>>)
         \o NamesAfter(Tail(text), prefix)

\* the m of the lines `from . import m`
ImportLineNames(text) == NamesAfter(text, "from . import ")
\* the m of the lines `from .m import (`
GroupNames(text) == NamesAfter(text, "from .")
\* the a of the lines `    a,`
GroupAttrNames(text) == NamesAfter(text, "    ")
\* the entries of __all__
AllEntries(text) == NamesAfter(text, "    \"")
\* every name the index emits
EmittedNames(text) ==
    Range(ImportLineNames(text)) \cup Range(GroupNames(text))
    \cup Range(GroupAttrNames(text)) \cup Range(AllEntries(text))

-----------------------------------------------------------------------------
(* C1 *)

\* C1: the entries of __all__ of every index the Renderer writes are the
\* module names of its `from . import` lines, in the order of the lines,
\* followed by the attributes of its groups, in the order they stand in the
\* file; nothing else and nothing less.
AllListsWhatIsEmitted ==
    \A i \in 1..Len(renders) :
        AllEntries(renders[i]) =
            ImportLineNames(renders[i]) \o GroupAttrNames(renders[i])

\* an unsorted index with import lines and two groups whose attributes stand
\* in another order than the statements that brought them
AllListsWitness ==
    /\ renders # <<>>
    /\ ~sort_imports
    /\ ImportLineNames(renders[1]) # <<>>
    /\ Len(GroupNames(renders[1])) = 2
    /\ GroupAttrNames(renders[1]) #
         [i \in 1..Len(FromImportsOf(statements)) |-> FromImportsOf(statements)[i][2]]

-----------------------------------------------------------------------------
(* C2 *)

\* C2: two invocations of the Renderer on the same statement list and the
\* same sort flag write the same text.
RenderIsDeterministic ==
    Len(renders) = 2 => renders[1] = renders[2]

-----------------------------------------------------------------------------
(* C5 *)

\* the top-level assignments whose first target is the name __all__
AllAssignments(stmts) ==
    {i \in 1..Len(stmts) :
        /\ stmts[i].kind = "Assign"
        /\ stmts[i].targets[1] = NameExpr(s_all)}

FirstAllAssignment(stmts) ==
    stmts[CHOOSE i \in AllAssignments(stmts) : \A j \in AllAssignments(stmts) : i <= j]

\* the module's first __all__ assignment is a list literal of string literals
DeclaresPublicList(stmts) ==
    /\ AllAssignments(stmts) # {}
    /\ LET v == FirstAllAssignment(stmts).value
       IN  /\ v.kind = "List"
           /\ \A i \in 1..Len(v.elts) : v.elts[i].kind = "Str"

PublicList(stmts) ==
    LET v == FirstAllAssignment(stmts).value
    IN  {v.elts[i].id : i \in 1..Len(v.elts)}

\* the bare names a target binds: the name itself, or the names of a tuple
TargetNames(target) ==
    CASE target.kind = "Name"  -> {target.id}
      [] target.kind = "Tuple" ->
            {target.elts[i].id :
                i \in {j \in 1..Len(target.elts) : target.elts[j].kind = "Name"}}
      [] OTHER -> {}

\* every name that stands at top level as a function name, a class name or
\* an assignment target, the later targets of a chained assignment included
TopLevelNames(stmts) ==
    UNION {IF stmts[i].kind \in {"FunctionDef", "ClassDef"}
           THEN {stmts[i].name}
           ELSE UNION {TargetNames(stmts[i].targets[k]) :
                          k \in 1..Len(stmts[i].targets)} :
           i \in 1..Len(stmts)}

\* C5: with respect_all, the names exposed for a module that declares a
\* public list L are, as a set, L intersected with the names that stand at
\* top level as a function, a class or any target of any assignment.
PublicListPrecedence ==
    (exposed # <<>> /\ respect_all /\ DeclaresPublicList(body))
        => Range(exposed[1]) = PublicList(body) \cap TopLevelNames(body)

-----------------------------------------------------------------------------
(* The tree, read without running the program *)

Stem(n) == StripPy(Universe[n].name)
Wrote(d) == d \in Range(written)
PlaceOf(d) == CHOOSE i \in 1..Len(written) : written[i] = d
DirsIn(tree) == {d \in tree : Universe[d].kind = "dir"}
ChildDirs(d) == {c \in ChildrenOf(d) \cap present : Universe[c].kind = "dir"}

\* n is a module file the loop of make_init recurses on
IsModuleFile(n) ==
    /\ Universe[n].kind = "file"
    /\ HasPyExtension(Universe[n].name)
    /\ Universe[n].name # s_init_py

\* d holds a module file, at any depth
RECURSIVE HasModules(_)
HasModules(d) ==
    \E c \in ChildrenOf(d) \cap present :
        \/ IsModuleFile(c)
        \/ Universe[c].kind = "dir" /\ HasModules(c)

\* n contributes at least one public name: a source file with an exposed
\* name, or a directory that holds one
RECURSIVE Exposable(_)
Exposable(n) ==
    \/ /\ IsModuleFile(n)
       /\ Universe[n].parses
       /\ get_exposed_names(Universe[n].body, respect_all) # <<>>
    \/ /\ Universe[n].kind = "dir"
       /\ \E c \in ChildrenOf(n) \cap present : Exposable(c)

-----------------------------------------------------------------------------
(* make_init with the walker yielding every directory in file name order *)

NameOrderWalk(tree, ix, d) ==
    CHOOSE w \in Walks(tree, ix, d) :
        \A i, j \in 1..Len(w) : i < j => StrLess(w[i].name, w[j].name)

RECURSIVE NameOrderResult(_, _, _, _)
RECURSIVE NameOrderLoop(_, _, _, _, _)
\* the loop over the entries kids, from the result so far
NameOrderLoop(tree, ix, respect, result, kids) ==
    IF kids = <<>> THEN result
    ELSE LET e == kids[1]
             next ==
                IF Skipped(tree, e) THEN result
                ELSE IF EntryIsFile(tree, e)
                THEN Aggregate(result, FALSE, submod_name(e),
                               FileResult(e.node, respect))
                ELSE Aggregate(result, TRUE, submod_name(e),
                               NameOrderResult(tree, ix, respect, e.node))
         IN  NameOrderLoop(tree, ix, respect, next, Tail(kids))

\* the statement list of directory d
NameOrderResult(tree, ix, respect, d) ==
    NameOrderLoop(tree, ix, respect, <<>>, NameOrderWalk(tree, ix, d))

\* the index of d rendered from that list
NameOrderIndex(d) ==
    LET result == NameOrderResult(present, index, respect_all, d)
    IN  new_contents(result, sort_imports, CHOOSE k \in KeyOrders(result) : TRUE)

\* the directories make_init reaches from n
RECURSIVE Reached(_)
Reached(n) ==
    IF IsDir(present, n)
    THEN {n} \cup UNION {Reached(c) : c \in ChildrenOf(n) \cap present}
    ELSE {}

-----------------------------------------------------------------------------
(* C3 *)

\* C3: with sort_imports, the bytes of every index written do not depend on
\* the order in which the walker yields the entries of any directory: each is
\* the text the walk in file name order gives, and a run that succeeds
\* writes the index of the same directories.
SortedOutputIgnoresWalkOrder ==
    sort_imports =>
        /\ \A d \in Dirs : Wrote(d) => index[d].text = NameOrderIndex(d)
        /\ (pc = "done" /\ ret.ok) =>
              Range(written) =
                {d \in Reached(root) :
                    NameOrderResult(present, index, respect_all, d) # <<>>}

\* a sorted run that walked the package and a subpackage of two modules
\* against the file name order, and wrote both indices
SortedWitness ==
    /\ sort_imports
    /\ pc = "done"
    /\ ret.ok
    /\ root = Pkg
    /\ \E d \in ChildDirs(Pkg) :
          /\ Wrote(d)
          /\ Len(ImportLineNames(index[d].text)) = 2
          /\ walked[d] # NameOrderWalk(present, index, d)
    /\ Len(ImportLineNames(index[Pkg].text)) = 2
    /\ walked[Pkg] # NameOrderWalk(present, index, Pkg)

-----------------------------------------------------------------------------
(* C4 *)

\* no module of the tree has a public-name declaration in effect
NoPublicListInEffect ==
    \/ ~respect_all
    \/ \A n \in present : IsModuleFile(n) => ~DeclaresPublicList(Universe[n].body)

\* C4: where no public-name declaration is in effect, no name an index emits
\* (module name, group attribute or __all__ entry) begins with an underscore.
UnderscoreRule ==
    NoPublicListInEffect =>
        \A d \in Dirs : Wrote(d) =>
            \A name \in EmittedNames(index[d].text) : ~StartsWith(name, s_underscore)

-----------------------------------------------------------------------------
(* C6 *)

\* the parent's index says nothing of d (names are distinct within a
\* directory of these trees)
Unreferenced(d) ==
    LET p == Universe[d].parent
    IN  (p \in Nodes /\ Wrote(p)) => Stem(d) \notin EmittedNames(index[p].text)

-----------------------------------------------------------------------------
(* C7 *)

\* C7: a failure met during the traversal (a file that cannot be read or
\* parsed, an entry that cannot be enumerated, an index that cannot be
\* written) aborts it: the program ends with make_init having returned an
\* error and no statement list.
AnyFailureAborts ==
    (pc = "done" /\ faults # {}) =>
        /\ ~ret.ok
        /\ ret.value = <<>>
        /\ stdout = <<>>

-----------------------------------------------------------------------------
(* C8 *)

\* C8: the program ends with exit code 0 when the generator succeeded, and
\* with one line on the error stream and a non-zero exit code when it failed.
ExitCodeAndDiagnostic ==
    pc = "done" =>
        IF ret.ok
        THEN exited = 0
        ELSE Len(stderr) = 1 /\ exited # 0

-----------------------------------------------------------------------------
(* C9 *)

\* the attribute of a statement: the name of an Import or an Attribute, the
\* attr of a FromImport
AttrOf(statement) ==
    IF statement.tag = "FromImport" THEN statement.b ELSE statement.a

\* the entries of a walk the loop did not skip and did not omit, given the
\* statement lists the recursion returned
RetainedIn(walk) ==
    SelectSeqOf(walk,
        {e \in Range(walk) :
            /\ ~Skipped(present, e)
            /\ EntryIsDir(present, e) => results[e.node].value # <<>>})

\* Import(stem) followed by one FromImport(stem, attr) for each statement the
\* recursion returned for the child
RECURSIVE Flattened(_)
Flattened(kids) ==
    IF kids = <<>> THEN <<>>
    ELSE LET stem == StripPy(kids[1].name)
             sub  == results[kids[1].node].value
         IN  <<Import(stem)>>
             \o [i \in 1..Len(sub) |-> FromImport(stem, AttrOf(sub[i]))]
             \o Flattened(Tail(kids))

\* C9: the statement list of every directory is, for each retained child in
\* walk order, Import(stem) followed by exactly one FromImport(stem, a) for
\* each statement the recursion returned for the child; so an index names in
\* its groups only children of its own directory, and the group of a child
\* directory holds exactly the attributes of the child's statements.
FlattenedOneLevel ==
    \A d \in DirsIn(present) :
        /\ results[d].done => results[d].value = Flattened(RetainedIn(walked[d]))
        /\ Wrote(d) =>
              /\ Range(GroupNames(index[d].text))
                    \subseteq {Stem(c) : c \in ChildrenOf(d) \cap present}
              /\ \A c \in ChildDirs(d) :
                    results[c].value # <<>> =>
                        Range(MapGet(FromImportsOf(results[d].value), Stem(c)))
                            = {AttrOf(st) : st \in Range(results[c].value)}

\* the package's index re-exports, in the group of its child sub, a name that
\* sub itself re-exports from its child q
FlattenedWitness ==
    /\ pc = "done"
    /\ ret.ok
    /\ root = Pkg
    /\ \E c \in ChildDirs(Pkg) : \E g \in ChildDirs(c) :
          /\ Wrote(g) /\ Wrote(c) /\ Wrote(Pkg)
          /\ \E st \in Range(results[c].value) :
                /\ st.tag = "FromImport"
                /\ st.a = Stem(g)
                /\ FromImport(Stem(c), st.b) \in Range(results[Pkg].value)
                /\ GroupOpen(Stem(c)) \in Range(index[Pkg].text)
                /\ GroupAttr(st.b) \in Range(index[Pkg].text)

-----------------------------------------------------------------------------
(* C10 *)

\* C10: when the index of a directory is written, the index of every child
\* directory that gets one (every child directory that holds a module file)
\* has been written before; no index is written twice, and the index of the
\* root is the last one written.
LeavesFirst ==
    /\ \A d \in DirsIn(present) : Wrote(d) =>
          \A c \in ChildDirs(d) :
              (Wrote(c) \/ HasModules(c)) => Wrote(c) /\ PlaceOf(c) < PlaceOf(d)
    /\ Wrote(root) => written[Len(written)] = root
    /\ \A i, j \in 1..Len(written) : written[i] = written[j] => i = j

\* a run over three levels: q, then sub, then the package
LeavesFirstWitness ==
    /\ pc = "done"
    /\ ret.ok
    /\ root = Pkg
    /\ Len(written) = 3
    /\ Universe[written[1]].parent = written[2]
    /\ Universe[written[2]].parent = written[3]
    /\ written[3] = Pkg

====
